---- MODULE Spec2Model ----
(***************************************************************************)
(* Model of the mock MySQL server builder, src/mysql/builder.go and        *)
(* src/mysql/client.go: the MockBuilder's configuration calls (Port,       *)
(* SQLStmts, SQLFiles), GetPort, and Build, taken statement by statement   *)
(* so that concurrent Build calls, the server goroutine and other          *)
(* processes on the machine interleave with it.                            *)
(*                                                                         *)
(* Configuration calls are made by the goroutine that owns the builder,    *)
(* between Build calls; Build may be called by several goroutines (the     *)
(* started flag is an atomic CompareAndSwap).                              *)
(***************************************************************************)
EXTENDS Integers, Sequences, FiniteSets, TLC

\* ---------------------------------------------------------------- bounds
MaxPort    == 2        \* TCP ports 1..MaxPort; 0 is "auto-assign"
MaxSeeds   == 2        \* most seeds (literal texts and files) registered, and most arguments of one call
MaxLate    == 1        \* configuration calls followed after the server was started

Ports   == 1..MaxPort

\* The goroutines that share the builder and may call Build.
Callers == {1, 2}

\* ------------------------------------------------------- inputs (fixtures)
\* SQL text is a sequence of characters; character 0 is the separator ';'.
Sep == 0
Texts == { <<1>>, <<2, Sep, 3>> }
\* File paths. Paths 1 and 2 exist on disk, the others do not.
Paths         == {1, 2, 3, 4}
ExistingPaths == {1, 2}
FileContent(f) == IF f = 1 THEN <<4, Sep, 5, Sep, 6>> ELSE <<7>>

SeqsUpTo(S, n) == UNION { [1..k -> S] : k \in 0..n }

\* ---------------------------------------------------------------- errors
\* A Go error value: its kind and the text it carries.
Err(kind, arg) == [kind |-> kind, arg |-> arg]
Nil == Err("nil", <<>>)

VARIABLES
    \* MockBuilder fields
    port,        \* b.port
    server,      \* b.server: 0 = nil, else the port its listener is bound to
    sqlDB,       \* b.sqlDB:  0 = nil, else the port the handle points at
    sqlxDB,      \* b.sqlxDB: 0 = nil, else the port the handle points at
    err,         \* b.err
    started,     \* b.started
    sqlStmts,    \* b.sqlStmts
    sqlFiles,    \* b.sqlFiles
    \* Build calls: position, locals and return values of each caller
    pc, listener, i, j, stmts, ret,
    \* the goroutine running b.server.Start(), and whether Close was called
    goroutine, closed,
    \* the machine: whether another process holds 127.0.0.1:b.port, and the
    \* statements the mock server has executed
    busy, executed,
    \* history
    raised,       \* the error the failing step of each caller's Build produced
    probed,       \* the port getFreePort handed to Build (0 = none yet)
    bindLost,     \* the probed port was held by another process at the server's bind
    creates,      \* calls of createMySQLServer
    launches,     \* goroutines launched to run server.Start
    successes,    \* Build calls that returned a nil error
    someReturned, \* some Build call has returned
    late,         \* configuration calls made since b.started was set
    orphaned,     \* a Build failed after it launched the server goroutine
    missErr,      \* the error of the first SQLFiles call that met a missing path
    afterReturn   \* whether each caller's Build began after some Build had returned

vars == << port, server, sqlDB, sqlxDB, err, started, sqlStmts, sqlFiles,
           pc, listener, i, j, stmts, ret, goroutine, closed, busy, executed,
           raised, probed, bindLost, creates, launches, successes,
           someReturned, late, afterReturn, orphaned, missErr >>

builder == << port, server, sqlDB, sqlxDB, err, started, sqlStmts, sqlFiles >>
locals  == << listener, i, j, stmts >>
machine == << goroutine, closed, busy, executed >>
history == << raised, probed, bindLost, creates, launches, successes,
             someReturned, late, afterReturn, orphaned, missErr >>
marks   == << orphaned, missErr >>

\* What Build returns: (*sqlx.DB, *sql.DB, func(), error).
Ret(x, d, s, e) == [sqlxDB |-> x, sqlDB |-> d, shutdown |-> s, err |-> e]
NoRet == Ret(0, 0, FALSE, Nil)

Cap(n) == IF n < 2 THEN n + 1 ELSE 2

Init ==
    /\ port = 0 /\ server = 0 /\ sqlDB = 0 /\ sqlxDB = 0
    /\ err = Nil /\ started = FALSE
    /\ sqlStmts = <<>> /\ sqlFiles = <<>>
    /\ pc = [p \in Callers |-> "idle"]
    /\ listener = [p \in Callers |-> 0]
    /\ i = [p \in Callers |-> 0]
    /\ j = [p \in Callers |-> 0]
    /\ stmts = [p \in Callers |-> <<>>]
    /\ ret = [p \in Callers |-> NoRet]
    /\ goroutine = "none" /\ closed = FALSE
    /\ busy = FALSE
    /\ executed = <<>>
    /\ raised = [p \in Callers |-> Nil]
    /\ probed = 0 /\ bindLost = FALSE
    /\ creates = 0 /\ launches = 0 /\ successes = 0
    /\ someReturned = FALSE
    /\ late = 0
    /\ orphaned = FALSE /\ missErr = Nil
    /\ afterReturn = [p \in Callers |-> FALSE]

\* ------------------------------------------------------ configuration calls
AllIdle == \A p \in Callers : pc[p] = "idle"

\* The frame of a configuration call: it is made between Build calls and
\* touches neither the callers, the machine nor the server.
Configure ==
    /\ AllIdle
    /\ late' = IF started THEN late + 1 ELSE late
    /\ UNCHANGED << pc, ret, locals, machine >>
    /\ UNCHANGED << raised, probed, bindLost, creates, launches, successes,
                    someReturned, afterReturn, orphaned >>

\* func (b *MockBuilder) Port(port int) *MockBuilder
Port(x) ==
    /\ Configure
    /\ port' = x
    /\ UNCHANGED missErr
    /\ UNCHANGED << server, sqlDB, sqlxDB, err, started, sqlStmts, sqlFiles >>

\* func (b *MockBuilder) GetPort() int; -1 stands for the nil dereference of
\* b.server when neither a port nor a server is set.
GetPort ==
    IF port = 0
    THEN IF server = 0 THEN -1 ELSE server
    ELSE port

\* func (b *MockBuilder) SQLStmts(stmts ...string) *MockBuilder
SQLStmts(ts) ==
    /\ Configure
    /\ sqlStmts' = sqlStmts \o ts
    /\ UNCHANGED missErr
    /\ UNCHANGED << port, server, sqlDB, sqlxDB, err, started, sqlFiles >>

\* os.Stat(file) followed by os.IsNotExist(err)
IsNotExist(f) == f \notin ExistingPaths

\* The loop of SQLFiles: the index of the first path of fs, from k on, that
\* does not exist; 0 when the loop runs to its end.
RECURSIVE FirstMissing(_, _)
FirstMissing(fs, k) ==
    IF k > Len(fs) THEN 0
    ELSE IF IsNotExist(fs[k]) THEN k
    ELSE FirstMissing(fs, k + 1)

\* SQLFiles with the append moved into the loop: paths before a missing one stay registered.
SQLFilesEager(fs) ==
    LET m == FirstMissing(fs, 1) IN
    /\ Configure
    /\ IF m # 0
       THEN /\ err' = Err("notexist", << fs[m] >>)
            /\ missErr' = IF missErr = Nil THEN err' ELSE missErr
            /\ sqlFiles' = sqlFiles \o SubSeq(fs, 1, m - 1)
       ELSE /\ sqlFiles' = sqlFiles \o fs
            /\ UNCHANGED << err, missErr >>
    /\ UNCHANGED << port, server, sqlDB, sqlxDB, started, sqlStmts >>

\* func (b *MockBuilder) SQLFiles(files ...string) *MockBuilder
SQLFiles(fs) ==
    LET m == FirstMissing(fs, 1) IN
    /\ Configure
    /\ IF m # 0
       THEN /\ err' = Err("notexist", << fs[m] >>)
            /\ missErr' = IF missErr = Nil THEN err' ELSE missErr
            /\ UNCHANGED sqlFiles
       ELSE /\ sqlFiles' = sqlFiles \o fs
            /\ UNCHANGED << err, missErr >>
    /\ UNCHANGED << port, server, sqlDB, sqlxDB, started, sqlStmts >>

\* ------------------------------------------------------------------ Build
\* A return statement of Build: the caller receives r.
Return(p, r) ==
    /\ pc' = [pc EXCEPT ![p] = "returned"]
    /\ ret' = [ret EXCEPT ![p] = r]
    /\ successes' = IF r.err = Nil THEN Cap(successes) ELSE successes
    /\ someReturned' = TRUE

Goto(p, where) ==
    /\ pc' = [pc EXCEPT ![p] = where]
    /\ UNCHANGED << ret, successes, someReturned >>

\* Build, line 65: if b.err != nil { return nil, nil, nil, b.err }
BuildCheckErr(p) ==
    /\ pc[p] = "idle"
    /\ afterReturn' = [afterReturn EXCEPT ![p] = someReturned]
    /\ IF err # Nil
       THEN Return(p, Ret(0, 0, FALSE, err))
       ELSE Goto(p, "cas")
    /\ UNCHANGED << builder, locals, machine >>
    /\ UNCHANGED << raised, probed, bindLost, creates, launches, late >>
    /\ UNCHANGED marks

\* The started flag written with Store(true) instead of CompareAndSwap.
BuildStore(p) ==
    /\ pc[p] = "cas"
    /\ started' = TRUE
    /\ Goto(p, "port")
    /\ UNCHANGED << port, server, sqlDB, sqlxDB, err, sqlStmts, sqlFiles >>
    /\ UNCHANGED << locals, machine >>
    /\ UNCHANGED << raised, probed, bindLost, creates, launches, late, afterReturn >>
    /\ UNCHANGED marks

\* Build, line 69: if !b.started.CompareAndSwap(false, true) { return ... }
BuildCAS(p) ==
    /\ pc[p] = "cas"
    /\ IF started
       THEN /\ Return(p, Ret(0, 0, FALSE, Err("started", <<>>)))
            /\ UNCHANGED started
       ELSE /\ started' = TRUE
            /\ Goto(p, "port")
    /\ UNCHANGED << port, server, sqlDB, sqlxDB, err, sqlStmts, sqlFiles >>
    /\ UNCHANGED << locals, machine >>
    /\ UNCHANGED << raised, probed, bindLost, creates, launches, late, afterReturn >>
    /\ UNCHANGED marks

\* Whether port q is held: by another process, by the mock server or by a
\* probe listener still open.
Held(q) ==
    \/ (q = port /\ busy)
    \/ (q = server /\ ~closed)
    \/ \E p \in Callers : listener[p] = q
FreePorts == { q \in Ports : ~Held(q) }

\* Build, lines 81-86: listener, b.port, b.err = getFreePort()
BuildPort(p) ==
    /\ pc[p] = "port"
    /\ IF port # 0
       THEN /\ Goto(p, "init")
            /\ UNCHANGED << port, err, listener, raised, probed >>
       ELSE \/ \E q \in FreePorts :
                 /\ port' = q
                 /\ err' = Nil
                 /\ listener' = [listener EXCEPT ![p] = q]
                 /\ probed' = q
                 /\ Goto(p, "close")
                 /\ UNCHANGED raised
            \/ /\ port' = 0
               /\ err' = Err("port", <<>>)
               /\ raised' = [raised EXCEPT ![p] = err']
               /\ Return(p, Ret(0, 0, FALSE, err'))
               /\ UNCHANGED << listener, probed >>
    /\ UNCHANGED << server, sqlDB, sqlxDB, started, sqlStmts, sqlFiles >>
    /\ UNCHANGED << i, j, stmts, machine >>
    /\ UNCHANGED << bindLost, creates, launches, late, afterReturn >>
    /\ UNCHANGED marks

\* Build, line 87: _ = listener.Close()
BuildClose(p) ==
    /\ pc[p] = "close"
    /\ listener' = [listener EXCEPT ![p] = 0]
    /\ Goto(p, "init")
    /\ UNCHANGED << builder, i, j, stmts, machine >>
    /\ UNCHANGED << raised, probed, bindLost, creates, launches, late, afterReturn >>
    /\ UNCHANGED marks

\* createMySQLServer with a fixed address instead of the port it is given.
CreateMySQLServerFixed(q) ==
    LET a == (q % MaxPort) + 1 IN
    IF Held(a)
    THEN [server |-> 0, err |-> Err("server", <<>>)]
    ELSE [server |-> a, err |-> Nil]

\* func createMySQLServer(dbName string, port int) (*server.Server, error):
\* server.NewServer listens on 127.0.0.1:port and fails when the port is held.
CreateMySQLServer(q) ==
    IF Held(q)
    THEN [server |-> 0, err |-> Err("server", <<>>)]
    ELSE [server |-> q, err |-> Nil]

\* initServer that falls back to another free port when the first bind fails.
InitServerRetry(p) ==
    /\ pc[p] = "init"
    /\ creates' = Cap(creates)
    /\ bindLost' = (bindLost \/ (probed # 0 /\ probed = port /\ busy))
    /\ IF Held(port) /\ FreePorts # {}
       THEN \E q \in FreePorts :
               /\ port' = q /\ server' = q /\ err' = Nil
       ELSE /\ server' = CreateMySQLServer(port).server
            /\ err' = CreateMySQLServer(port).err
            /\ UNCHANGED port
    /\ IF err' # Nil
       THEN /\ raised' = [raised EXCEPT ![p] = err']
            /\ Return(p, Ret(0, 0, FALSE, err'))
       ELSE /\ Goto(p, "go")
            /\ UNCHANGED raised
    /\ UNCHANGED << sqlDB, sqlxDB, started, sqlStmts, sqlFiles >>
    /\ UNCHANGED << locals, machine >>
    /\ UNCHANGED << probed, launches, late, afterReturn >>
    /\ UNCHANGED marks

\* Build, lines 91-94: b.initServer(); if b.err != nil { return ... }
InitServer(p) ==
    /\ pc[p] = "init"
    /\ IF err # Nil
       THEN /\ UNCHANGED << server, err, creates, bindLost >>
       ELSE /\ server' = CreateMySQLServer(port).server
            /\ err' = CreateMySQLServer(port).err
            /\ creates' = Cap(creates)
            /\ bindLost' = (bindLost \/ (probed # 0 /\ probed = port /\ busy))
    /\ IF err' # Nil
       THEN /\ raised' = [raised EXCEPT ![p] = err']
            /\ Return(p, Ret(0, 0, FALSE, err'))
       ELSE /\ Goto(p, "go")
            /\ UNCHANGED raised
    /\ UNCHANGED << port, sqlDB, sqlxDB, started, sqlStmts, sqlFiles >>
    /\ UNCHANGED << locals, machine >>
    /\ UNCHANGED << probed, launches, late, afterReturn >>
    /\ UNCHANGED marks

\* Build, lines 98-102: go func() { if err := b.server.Start(); ... }()
GoStart(p) ==
    /\ pc[p] = "go"
    /\ goroutine' = "spawned"
    /\ launches' = Cap(launches)
    /\ Goto(p, "client")
    /\ UNCHANGED << builder, locals, closed, busy, executed >>
    /\ UNCHANGED << raised, probed, bindLost, creates, late, afterReturn >>
    /\ UNCHANGED marks

\* Whether a MySQL server answers on 127.0.0.1:q: the mock server once its
\* accept loop runs, or a server of another process holding the port.
Reachable(q) ==
    \/ (server = q /\ ~closed /\ goroutine = "accepting")
    \/ (q # 0 /\ q = port /\ busy)

\* Build's client step with the failure dropped: b.err is not set before the return.
CreateClientSwallow(p) ==
    /\ pc[p] = "client"
    /\ \/ /\ Reachable(port)
          /\ sqlxDB' = port /\ sqlDB' = port
          /\ Goto(p, "stmts")
          /\ UNCHANGED << err, raised, orphaned >>
       \/ /\ sqlxDB' = 0 /\ sqlDB' = 0
          /\ orphaned' = TRUE
          /\ raised' = [raised EXCEPT ![p] = Err("client", <<>>)]
          /\ UNCHANGED err
          /\ Return(p, Ret(0, 0, FALSE, err))
    /\ UNCHANGED << port, server, started, sqlStmts, sqlFiles >>
    /\ UNCHANGED << locals, machine >>
    /\ UNCHANGED << probed, bindLost, creates, launches, late, afterReturn, missErr >>

\* Build, lines 110-114: b.sqlxDB, b.sqlDB, err = createMySQLClient(b.port, b.dbName)
\* (client.go: connect and ping both handles; any failure returns nil, nil, err)
CreateClient(p) ==
    /\ pc[p] = "client"
    /\ \/ /\ Reachable(port)
          /\ sqlxDB' = port /\ sqlDB' = port
          /\ Goto(p, "stmts")
          /\ UNCHANGED << err, raised, orphaned >>
       \/ /\ sqlxDB' = 0 /\ sqlDB' = 0
          /\ err' = Err("client", <<>>)
          /\ orphaned' = TRUE
          /\ raised' = [raised EXCEPT ![p] = err']
          /\ Return(p, Ret(0, 0, FALSE, err'))
    /\ UNCHANGED << port, server, started, sqlStmts, sqlFiles >>
    /\ UNCHANGED << locals, machine >>
    /\ UNCHANGED << probed, bindLost, creates, launches, late, afterReturn, missErr >>

\* ---------------------------------------------------------------- seeding
\* splitSQLStatements: a separator-based split of the text; empty pieces are dropped.
RECURSIVE SplitFrom(_, _, _)
SplitFrom(text, k, piece) ==
    LET done == IF piece = <<>> THEN <<>> ELSE << piece >> IN
    IF k > Len(text) THEN done
    ELSE IF text[k] = Sep THEN done \o SplitFrom(text, k + 1, <<>>)
    ELSE SplitFrom(text, k + 1, Append(piece, text[k]))

SplitSQLStatements(text) == SplitFrom(text, 1, <<>>)

\* splitSQLFile: the statements of the file's contents.
SplitSQLFile(f) == SplitSQLStatements(FileContent(f))

seedFrame ==
    /\ UNCHANGED << port, server, sqlDB, sqlxDB, started, sqlStmts, sqlFiles >>
    /\ UNCHANGED << listener, goroutine, closed, busy >>
    /\ UNCHANGED << probed, bindLost, creates, launches, late, afterReturn, orphaned, missErr >>

\* The loop variables of initWithStmts and initWithFiles: the index of the
\* range loop, the statements of the current seed, the index into them.
Loop(p, k, ss, n) ==
    /\ i' = [i EXCEPT ![p] = k]
    /\ stmts' = [stmts EXCEPT ![p] = ss]
    /\ j' = [j EXCEPT ![p] = n]

\* initWithStmts, lines 158-163: the range loop reaches b.sqlStmts[k] and
\* splits it, or ends.
NextStmt(p, k) ==
    IF k > Len(sqlStmts)
    THEN Goto(p, "files") /\ Loop(p, 0, <<>>, 0)
    ELSE Goto(p, "stmtExec") /\ Loop(p, k, SplitSQLStatements(sqlStmts[k]), 1)

\* initWithStmts, line 154: if b.err != nil || len(b.sqlStmts) == 0 { return }
InitWithStmts(p) ==
    /\ pc[p] = "stmts"
    /\ IF err # Nil \/ Len(sqlStmts) = 0
       THEN Goto(p, "files") /\ UNCHANGED << i, j, stmts >>
       ELSE NextStmt(p, 1)
    /\ UNCHANGED << err, executed, raised >>
    /\ seedFrame

\* executeSQLStatements that records a failure and goes on with the next statement.
StmtExecContinue(p) ==
    /\ pc[p] = "stmtExec"
    /\ IF j[p] > Len(stmts[p])
       THEN NextStmt(p, i[p] + 1) /\ UNCHANGED << err, executed, raised >>
       ELSE /\ \/ /\ executed' = Append(executed, stmts[p][j[p]])
                  /\ UNCHANGED << err, raised >>
               \/ /\ err' = Err("exec", stmts[p][j[p]])
                  /\ raised' = [raised EXCEPT ![p] = err']
                  /\ UNCHANGED executed
            /\ IF j[p] < Len(stmts[p])
               THEN Goto(p, "stmtExec") /\ Loop(p, i[p], stmts[p], j[p] + 1)
               ELSE NextStmt(p, i[p] + 1)
    /\ seedFrame

\* initWithStmts, lines 164-167, with executeSQLStatements, lines 192-197, one
\* b.sqlDB.Exec(stmt) at a time: a failure sets b.err and returns from initWithStmts.
StmtExec(p) ==
    /\ pc[p] = "stmtExec"
    /\ IF j[p] > Len(stmts[p])
       THEN NextStmt(p, i[p] + 1) /\ UNCHANGED << err, executed, raised >>
       ELSE \/ /\ executed' = Append(executed, stmts[p][j[p]])
               /\ IF j[p] < Len(stmts[p])
                  THEN Goto(p, "stmtExec") /\ Loop(p, i[p], stmts[p], j[p] + 1)
                  ELSE NextStmt(p, i[p] + 1)
               /\ UNCHANGED << err, raised >>
            \/ /\ err' = Err("exec", stmts[p][j[p]])
               /\ raised' = [raised EXCEPT ![p] = err']
               /\ Goto(p, "files") /\ Loop(p, 0, <<>>, 0)
               /\ UNCHANGED executed
    /\ seedFrame

\* initWithFiles, lines 177-182: the range loop reaches b.sqlFiles[k] and
\* splits it with splitSQLFile, which may fail, or ends.
NextFile(p, k) ==
    IF k > Len(sqlFiles)
    THEN /\ Goto(p, "finish") /\ Loop(p, 0, <<>>, 0)
         /\ UNCHANGED << err, raised >>
    ELSE \/ /\ Goto(p, "fileExec") /\ Loop(p, k, SplitSQLFile(sqlFiles[k]), 1)
            /\ UNCHANGED << err, raised >>
         \/ /\ err' = Err("splitfile", << sqlFiles[k] >>)
            /\ raised' = [raised EXCEPT ![p] = err']
            /\ Goto(p, "finish") /\ Loop(p, 0, <<>>, 0)

\* initWithFiles, line 173: if b.err != nil || len(b.sqlFiles) == 0 { return }
InitWithFiles(p) ==
    /\ pc[p] = "files"
    /\ IF err # Nil \/ Len(sqlFiles) = 0
       THEN Goto(p, "finish") /\ UNCHANGED << i, j, stmts, err, raised >>
       ELSE NextFile(p, 1)
    /\ UNCHANGED executed
    /\ seedFrame

\* initWithFiles, lines 183-186, with executeSQLStatements, lines 192-197, one
\* b.sqlDB.Exec(stmt) at a time: a failure sets b.err and returns from initWithFiles.
FileExec(p) ==
    /\ pc[p] = "fileExec"
    /\ IF j[p] > Len(stmts[p])
       THEN NextFile(p, i[p] + 1) /\ UNCHANGED executed
       ELSE \/ /\ executed' = Append(executed, stmts[p][j[p]])
               /\ IF j[p] < Len(stmts[p])
                  THEN /\ Goto(p, "fileExec") /\ Loop(p, i[p], stmts[p], j[p] + 1)
                       /\ UNCHANGED << err, raised >>
                  ELSE NextFile(p, i[p] + 1)
            \/ /\ err' = Err("exec", stmts[p][j[p]])
               /\ raised' = [raised EXCEPT ![p] = err']
               /\ Goto(p, "finish") /\ Loop(p, 0, <<>>, 0)
               /\ UNCHANGED executed
    /\ seedFrame

\* Build's last return handing out the handles and the shutdown closure with the error.
BuildFinishLeaky(p) ==
    /\ pc[p] = "finish"
    /\ Return(p, Ret(sqlxDB, sqlDB, TRUE, err))
    /\ orphaned' = (orphaned \/ err # Nil)
    /\ UNCHANGED << builder, locals, machine >>
    /\ UNCHANGED << raised, probed, bindLost, creates, launches, late, afterReturn, missErr >>

\* Build, lines 118-122: if b.err != nil { return nil, nil, nil, b.err }
\* return b.sqlxDB, b.sqlDB, shutdown, nil
BuildFinish(p) ==
    /\ pc[p] = "finish"
    /\ IF err # Nil
       THEN Return(p, Ret(0, 0, FALSE, err))
       ELSE Return(p, Ret(sqlxDB, sqlDB, TRUE, Nil))
    /\ orphaned' = (orphaned \/ err # Nil)
    /\ UNCHANGED << builder, locals, machine >>
    /\ UNCHANGED << raised, probed, bindLost, creates, launches, late, afterReturn, missErr >>

\* The caller takes Build's results and goes on.
BuildAck(p) ==
    /\ pc[p] = "returned"
    /\ pc' = [pc EXCEPT ![p] = "idle"]
    /\ ret' = [ret EXCEPT ![p] = NoRet]
    /\ raised' = [raised EXCEPT ![p] = Nil]
    /\ afterReturn' = [afterReturn EXCEPT ![p] = FALSE]
    /\ UNCHANGED << builder, locals, machine >>
    /\ UNCHANGED << probed, bindLost, creates, launches, successes, someReturned, late >>
    /\ UNCHANGED marks

\* ------------------------------------------- server goroutine and shutdown
\* b.server.Start() enters its accept loop.
ServerStartOK ==
    /\ goroutine = "spawned"
    /\ goroutine' = "accepting"
    /\ UNCHANGED << builder, pc, ret, locals, closed, busy, executed, history >>

\* Build, lines 99-101: b.server.Start() returns an error: panic(err).
\* The panic of a goroutine ends the process: the builder, its callers and
\* the server are gone.
ServerStartFail ==
    /\ goroutine \in {"spawned", "accepting"}
    /\ goroutine' = "panicked"
    /\ port' = 0 /\ server' = 0 /\ sqlDB' = 0 /\ sqlxDB' = 0
    /\ err' = Nil /\ started' = FALSE
    /\ sqlStmts' = <<>> /\ sqlFiles' = <<>>
    /\ pc' = [p \in Callers |-> "halted"]
    /\ listener' = [p \in Callers |-> 0]
    /\ i' = [p \in Callers |-> 0]
    /\ j' = [p \in Callers |-> 0]
    /\ stmts' = [p \in Callers |-> <<>>]
    /\ ret' = [p \in Callers |-> NoRet]
    /\ closed' = FALSE /\ busy' = FALSE /\ executed' = <<>>
    /\ raised' = [p \in Callers |-> Nil]
    /\ afterReturn' = [p \in Callers |-> FALSE]
    /\ probed' = 0 /\ bindLost' = FALSE
    /\ creates' = 0 /\ launches' = 0 /\ successes' = 0
    /\ someReturned' = FALSE /\ late' = 0
    /\ orphaned' = FALSE /\ missErr' = Nil

\* Build, lines 104-106: shutdown := func() { _ = b.server.Close() },
\* called by a caller that received it.
Shutdown ==
    /\ successes > 0
    /\ ~closed
    /\ closed' = TRUE
    /\ UNCHANGED << builder, pc, ret, locals, goroutine, busy, executed, history >>

\* ------------------------------------------------------- other processes
\* Another process binds 127.0.0.1:b.port, or gives it up. Build reads this
\* at the server's bind and at the client's connect, so other processes are
\* followed from the release of the probe listener to the connect.
Exposed == \E p \in Callers : pc[p] \in {"init", "go", "client"}

EnvBind ==
    /\ Exposed
    /\ ~Held(port)
    /\ busy' = TRUE
    /\ UNCHANGED << builder, pc, ret, locals, goroutine, closed, executed, history >>

EnvRelease ==
    /\ Exposed
    /\ busy
    /\ busy' = FALSE
    /\ UNCHANGED << builder, pc, ret, locals, goroutine, closed, executed, history >>

\* ------------------------------------------------------------ specification
Fits(args) == Len(sqlStmts) + Len(sqlFiles) + Len(args) <= MaxSeeds
CanConfigure == late < MaxLate

Next ==
    \/ \E x \in 0..MaxPort : CanConfigure /\ Port(x)
    \/ \E ts \in SeqsUpTo(Texts, MaxSeeds) :
          CanConfigure /\ Fits(ts) /\ SQLStmts(ts)
    \/ \E fs \in SeqsUpTo(Paths, MaxSeeds) :
          CanConfigure /\ Fits(fs) /\ SQLFiles(fs)
    \/ \E p \in Callers : BuildCheckErr(p)
    \/ \E p \in Callers : BuildCAS(p)
    \/ \E p \in Callers : BuildPort(p)
    \/ \E p \in Callers : BuildClose(p)
    \/ \E p \in Callers : InitServer(p)
    \/ \E p \in Callers : GoStart(p)
    \/ \E p \in Callers : CreateClient(p)
    \/ \E p \in Callers : InitWithStmts(p)
    \/ \E p \in Callers : StmtExec(p)
    \/ \E p \in Callers : InitWithFiles(p)
    \/ \E p \in Callers : FileExec(p)
    \/ \E p \in Callers : BuildFinish(p)
    \/ \E p \in Callers : BuildAck(p)
    \/ ServerStartOK
    \/ ServerStartFail
    \/ Shutdown
    \/ EnvBind
    \/ EnvRelease

Spec == Init /\ [][Next]_vars

\* ================================================================ properties
IsPrefix(a, b) == Len(a) <= Len(b) /\ SubSeq(b, 1, Len(a)) = a

RECURSIVE AllStmts(_)
AllStmts(texts) ==
    IF texts = <<>> THEN <<>>
    ELSE SplitSQLStatements(Head(texts)) \o AllStmts(Tail(texts))

\* The statements of the registered literal texts in registration order,
\* then those of the registered files in registration order.
SeedOrder ==
    AllStmts(sqlStmts) \o AllStmts([k \in 1..Len(sqlFiles) |-> FileContent(sqlFiles[k])])

Seeding(p) == pc[p] \in {"stmts", "stmtExec", "files", "fileExec", "finish"}
Returned(p) == pc[p] = "returned"
ConfigFields == << port, sqlStmts, sqlFiles, err >>

\* C1 (as claimed): once b.err is non-nil, no step of the living process
\* changes b.port, b.sqlStmts, b.sqlFiles or b.err.
C1_StickyErrorFreezesBuilder ==
    [][(err # Nil /\ goroutine' # "panicked") => UNCHANGED ConfigFields]_vars

\* C2: createMySQLServer and the server.Start goroutine are reached at most
\* once, at most one Build returns a nil error, and a Build that begins after
\* some Build has returned returns a non-nil error.
C2_BuildOnlyOnce ==
    /\ creates <= 1 /\ launches <= 1 /\ successes <= 1
    /\ \A p \in Callers : (Returned(p) /\ afterReturn[p]) => ret[p].err # Nil

C2_Witness ==
    \E p \in Callers :
        /\ Returned(p) /\ afterReturn[p]
        /\ ret[p].err = Err("started", <<>>)
        /\ successes = 1 /\ creates = 1 /\ launches = 1

\* C3 (as claimed): after a SQLFiles call met a missing path, every Build
\* returns the error that call recorded.
C3_MissingFileErrorReturned ==
    \A p \in Callers : (missErr # Nil /\ Returned(p)) => ret[p].err = missErr

\* C4: the statements executed are at every point of Build a prefix of
\* SeedOrder, all of it when Build returns nil; the statement that fails is
\* the next one of SeedOrder, nothing is executed after it, and Build returns
\* its failure.
C4_SeedsRunInOrder ==
    \A p \in Callers :
        /\ Seeding(p) => IsPrefix(executed, SeedOrder)
        /\ (Returned(p) /\ ret[p].err = Nil) => executed = SeedOrder
        /\ raised[p].kind = "exec" =>
              /\ IsPrefix(Append(executed, raised[p].arg), SeedOrder)
              /\ Returned(p) => ret[p].err = raised[p]

C4_Witness ==
    \E p \in Callers :
        /\ Returned(p) /\ ret[p].err = Nil
        /\ sqlStmts # <<>> /\ sqlFiles # <<>>
        /\ executed = SeedOrder /\ Len(executed) > 2

\* C5: the error a step of Build fails with (port probe, server construction,
\* client connect, statement execution, file split) and the sticky
\* configuration error are what Build returns; a failure of server.Start is
\* no error value of the builder or of a Build call: the process is halted.
C5_ErrorsAreReturned ==
    /\ \A p \in Callers :
          Returned(p) =>
             /\ raised[p] # Nil => ret[p].err = raised[p]
             /\ err.kind = "notexist" => ret[p].err = err
             /\ err # Nil => ret[p].err # Nil
    /\ goroutine = "panicked" => \A p \in Callers : pc[p] = "halted"
    /\ \A p \in Callers : pc[p] = "halted" => ~Returned(p) /\ ret[p] = NoRet

C5_Witness ==
    \E p \in Callers :
        /\ Returned(p)
        /\ raised[p].kind = "exec"
        /\ ret[p].err = raised[p]
        /\ goroutine = "accepting"

\* C6: after a Build that probed for its port has returned nil, and until the
\* builder is configured again, GetPort is a real port, the one the server
\* is bound to and the one both client handles point at.
C6_AutoPortIsBoundPort ==
    (successes > 0 /\ probed # 0 /\ late = 0) =>
        /\ GetPort \in Ports
        /\ GetPort = server
        /\ sqlDB = GetPort /\ sqlxDB = GetPort
        /\ \A p \in Callers :
              Returned(p) /\ ret[p].err = Nil =>
                 ret[p].sqlDB = GetPort /\ ret[p].sqlxDB = GetPort

C6_Witness ==
    \E p \in Callers :
        /\ Returned(p) /\ ret[p].err = Nil
        /\ probed # 0 /\ GetPort = probed /\ server = probed

\* C7 (as claimed): once a Build has returned, a step between Build calls
\* changes none of b.port, b.sqlStmts, b.sqlFiles, b.err.
C7_BuildIsTerminal ==
    [][(someReturned /\ AllIdle /\ AllIdle') => UNCHANGED ConfigFields]_vars

\* C8: when another process holds the probed port at the server's bind, no
\* Build returns nil, no server exists, and the server is constructed once
\* only, on the probed port.
C8_LostRaceFailsBuild ==
    bindLost =>
        /\ successes = 0 /\ server = 0 /\ creates = 1 /\ launches = 0
        /\ \A p \in Callers : Returned(p) => ret[p].err # Nil
        /\ late = 0 => port = probed

C8_Witness ==
    \E p \in Callers :
        /\ bindLost /\ busy /\ port = probed /\ listener[p] = 0
        /\ Returned(p) /\ ret[p].err = Err("server", <<>>)

\* C9: Build returns the shutdown closure and both handles with a nil error
\* and none of them with an error; after a Build failed past the launch of
\* the server goroutine the server exists unclosed, started is set and no
\* Build has returned or returns nil.
C9_HandlesOnlyOnSuccess ==
    /\ \A p \in Callers :
          Returned(p) =>
             IF ret[p].err = Nil
             THEN ret[p].shutdown /\ ret[p].sqlDB # 0 /\ ret[p].sqlxDB # 0
             ELSE ~ret[p].shutdown /\ ret[p].sqlDB = 0 /\ ret[p].sqlxDB = 0
    /\ orphaned => server # 0 /\ ~closed /\ started /\ successes = 0 /\ launches = 1

C9_Witness ==
    \E p \in Callers :
        /\ Returned(p) /\ ret[p].err.kind = "exec"
        /\ orphaned /\ goroutine = "accepting" /\ server # 0

\* C10: a SQLFiles call with a missing path leaves b.sqlFiles as it was, one
\* whose paths all exist appends them in argument order; neither touches the
\* server, the handles, the started flag or what the server executed.
C10_SQLFilesAllOrNothing ==
    [][(AllIdle /\ pc' = pc) =>
       \A fs \in SeqsUpTo(Paths, MaxSeeds) :
          \/ /\ IF \E k \in 1..Len(fs) : fs[k] \notin ExistingPaths
                THEN sqlFiles' = sqlFiles
                ELSE sqlFiles' = sqlFiles \o fs
             /\ UNCHANGED << server, sqlDB, sqlxDB, started, goroutine, closed, executed >>
          \/ ~SQLFiles(fs)]_vars

C10_Witness ==
    /\ sqlFiles = << 2, 1 >>
    /\ err = Err("notexist", << 3 >>)
    /\ ~started

====
